---- MODULE Spec2Model ----
(***************************************************************************)
(* Toss Up (server/games/tossup/game.py): the turn / round state machine,  *)
(* the dice resolution and bust rule, and the automated player's policy.   *)
(*                                                                         *)
(* The handlers of TossUpGame call one another (a roll that busts ends the *)
(* turn, which may end the round, which may start a round and a turn), so  *)
(* each handler is an operator from a game record to a game record and an  *)
(* action applies one entry point (on_start, execute_action, on_tick) to   *)
(* the current record as a whole.                                          *)
(***************************************************************************)
EXTENDS Integers, Sequences, FiniteSets, TLC

(* -------------------------- the game explored ------------------------- *)
\* Players added before on_start, within get_min_players()..get_max_players().
NumPlayers == 3
\* The options the game is constructed with: TossUpOptions(target_score=...,
\* starting_dice=...). Small values, so that targets are reached, rounds end
\* and ties happen within a few turns.
TargetScore == 2
StartingDice == 2

(* ------------------------------ bounds -------------------------------- *)
\* Rounds explored: an entry point that would start a later round is not taken.
MaxRound == 2
\* Dice rolled when the dice resolution is applied on its own.
MaxDice == 3
\* Eligible players waiting in the lobby beyond the NumPlayers whose state is
\* tracked, when the start of the game is explored on its own.
MaxExtra == 6
\* The target score of the games in which the bot policy is applied on its
\* own: large enough for an opponent to be more than 20 short of it.
PolicyTargetScore == 21
\* Turn points and dice the policy is asked about when applied on its own.
MaxPolicyPoints == 26
MaxPolicyDice == 4

(* ------------------------- program constants -------------------------- *)
MinPlayers == 2
MaxPlayers == 8
BaseTargetMin == 10
BaseTargetMax == 25
DesperateMargin == 20
DesperateTarget == 999
DefaultTarget == 15
StandardSides == 6
PlayPalaceSides == 3

\* Unbanked points explored: a roll that would take them past the target is
\* not taken.
MaxTurnPoints == TargetScore

Players == 1..NumPlayers
Variants == {"Standard", "PlayPalace"}
\* Player / target "None".
None == 0
NoTarget == -1

VARIABLES
    status,          \* Game.status: "waiting" | "playing" | "finished"
    game_active,     \* Game.game_active
    round,           \* Game.round
    turn_player_ids, \* Game.turn_players: the turn order, a sequence of players
    turn_index,      \* Game.turn_index, 0-based
    turn_points,     \* TossUpPlayer.turn_points, per player
    dice_count,      \* TossUpPlayer.dice_count, per player
    last_roll,       \* TossUpPlayer.last_roll, per player: <<>> or [green, yellow, red]
    is_spectator,    \* Player.is_spectator, per player
    total_score,     \* TeamManager team.total_score, per player (individual mode)
    bot_target,      \* BotHelper target, per player (NoTarget when unset)
    is_bot,          \* Player.is_bot, per player
    rules_variant,   \* options.rules_variant
    target_score,    \* options.target_score
    out,             \* what the last entry point broadcast / returned
    probe_in,        \* argument of a function applied on its own (<<>> in a game);
                     \* in the lobby, the further eligible players
    probe_out        \* its result

\* The fields of the game and its players.
gvars == <<status, game_active, round, turn_player_ids, turn_index, turn_points,
           dice_count, last_roll, is_spectator, total_score, bot_target, is_bot,
           rules_variant, target_score>>
probes == <<probe_in, probe_out>>
vars == <<gvars, out, probes>>

\* The fields a handler may change, as one record.
Game ==
    [status |-> status, game_active |-> game_active, round |-> round,
     turn_player_ids |-> turn_player_ids, turn_index |-> turn_index,
     turn_points |-> turn_points, dice_count |-> dice_count,
     last_roll |-> last_roll, is_spectator |-> is_spectator,
     total_score |-> total_score, bot_target |-> bot_target, out |-> <<>>]

\* One broadcast (or the rejection reason returned to the caller).
Msg(m, p, x, y, z) ==
    [msg |-> m, player |-> p, reason |-> "", x |-> x, y |-> y, z |-> z]
\* execute_action refusing action_id for player p, with the reason is_enabled gave.
Refusal(action_id, p, why) ==
    [msg |-> action_id, player |-> p, reason |-> why, x |-> 0, y |-> 0, z |-> 0]
Say(g, m) == [g EXCEPT !.out = Append(@, m)]

(* --------------------------- DiceResolver ----------------------------- *)
\* One die: the face drawn by random.randint, classified.
DieColour(variant, face) ==
    IF variant = "Standard"
    THEN IF face <= 3 THEN "green" ELSE IF face <= 5 THEN "yellow" ELSE "red"
    ELSE IF face = 1 THEN "green" ELSE IF face = 2 THEN "yellow" ELSE "red"

Sides(variant) == IF variant = "Standard" THEN StandardSides ELSE PlayPalaceSides

\* The faces n dice may show: one draw per die.
Faces(variant, n) == [1..n -> 1..Sides(variant)]

Count(variant, faces, colour) ==
    Cardinality({i \in DOMAIN faces : DieColour(variant, faces[i]) = colour})

\* A dice loop that loses the yellow dice.
RollDiceNoYellow(variant, faces) ==
    [green  |-> Count(variant, faces, "green"),
     yellow |-> 0,
     red    |-> Count(variant, faces, "red")]

\* The loop of _action_roll over range(dice_count).
RollDice(variant, faces) ==
    [green  |-> Count(variant, faces, "green"),
     yellow |-> Count(variant, faces, "yellow"),
     red    |-> Count(variant, faces, "red")]

\* A bust whenever no die comes up green, in either variant.
IsBustNoGreen(variant, roll) == roll.green = 0

\* A bust rule shared by both variants: the all-red rule.
IsBustAllRed(variant, roll) == roll.green = 0 /\ roll.yellow = 0

IsBust(variant, roll) ==
    IF variant = "Standard"
    THEN roll.green = 0 /\ roll.red > 0
    ELSE roll.green = 0 /\ roll.yellow = 0

(* ------------------- framework: players and turn order ---------------- *)
PlayerList == [i \in 1..NumPlayers |-> i]

IsActive(g, p) == ~g.is_spectator[p]

\* get_active_players(): the non-spectators, in players order.
ActivePlayers(g) == SelectSeq(PlayerList, LAMBDA p : IsActive(g, p))

\* current_player
CurrentPlayer(g) ==
    IF g.turn_index >= 0 /\ g.turn_index < Len(g.turn_player_ids)
    THEN g.turn_player_ids[g.turn_index + 1]
    ELSE None

\* set_turn_players(players)
SetTurnPlayers(g, players) ==
    [g EXCEPT !.turn_player_ids = players, !.turn_index = 0]

\* advance_turn(announce=False)
AdvanceTurn(g) == [g EXCEPT !.turn_index = @ + 1]

\* finish_game()
FinishGame(g) == [g EXCEPT !.status = "finished", !.game_active = FALSE]

\* get_player_score(player)
PlayerScore(g, p) == g.total_score[p]

\* _team_manager.add_to_team_score(name, points)
AddToTeamScore(g, p, points) == [g EXCEPT !.total_score[p] = @ + points]

(* ------------------------------ BotPolicy ----------------------------- *)
Max(a, b) == IF a >= b THEN a ELSE b

RECURSIVE ThresholdScan(_, _, _, _)
\* First loop of _setup_bot_target: <<someone_hit_threshold, highest_score>>.
ThresholdScan(g, p, rest, acc) ==
    IF rest = <<>> THEN acc
    ELSE LET other == Head(rest)
             other_score == PlayerScore(g, other)
         IN IF other # p /\ other_score >= target_score
            THEN ThresholdScan(g, p, Tail(rest), <<TRUE, Max(acc[2], other_score)>>)
            ELSE ThresholdScan(g, p, Tail(rest), acc)

RECURSIVE MaxOpponentScan(_, _, _, _)
\* Second loop of _setup_bot_target: max_opponent_score.
MaxOpponentScan(g, p, rest, acc) ==
    IF rest = <<>> THEN acc
    ELSE LET other == Head(rest)
         IN IF other # p
            THEN MaxOpponentScan(g, p, Tail(rest), Max(acc, PlayerScore(g, other)))
            ELSE MaxOpponentScan(g, p, Tail(rest), acc)

\* A target that only draws level with the highest opponent at the target score.
BotTargetForTie(g, p, base) ==
    LET hit == ThresholdScan(g, p, ActivePlayers(g), <<FALSE, 0>>)
        my_score == PlayerScore(g, p)
        target == IF hit[1] THEN hit[2] - my_score
                  ELSE IF MaxOpponentScan(g, p, ActivePlayers(g), 0)
                              >= target_score - DesperateMargin
                       THEN DesperateTarget
                       ELSE base
    IN Max(0, target)

\* The target _setup_bot_target computes; base is the draw of randint(10, 25).
BotTargetFor(g, p, base) ==
    LET hit == ThresholdScan(g, p, ActivePlayers(g), <<FALSE, 0>>)
        my_score == PlayerScore(g, p)
        target == IF hit[1] THEN hit[2] + 1 - my_score
                  ELSE IF MaxOpponentScan(g, p, ActivePlayers(g), 0)
                              >= target_score - DesperateMargin
                       THEN DesperateTarget
                       ELSE base
    IN Max(0, target)

SetupBotTarget(g, p, base) ==
    [g EXCEPT !.bot_target[p] = BotTargetFor(g, p, base)]

BankChance(dice) ==
    IF dice = 1 THEN 55 ELSE IF dice = 2 THEN 30 ELSE IF dice = 3 THEN 10 ELSE 2

\* A policy that leaves the stored target out of its choice.
BotThinkNoTarget(g, p, u) ==
    LET my_score == PlayerScore(g, p)
    IN IF my_score + g.turn_points[p] >= target_score THEN "bank"
       ELSE IF g.turn_points[p] = 0 THEN "roll"
       ELSE IF u < BankChance(g.dice_count[p]) THEN "bank" ELSE "roll"

\* bot_think; u is the draw of random.random(), in hundredths.
BotThink(g, p, u) ==
    LET target == IF g.bot_target[p] = NoTarget THEN DefaultTarget ELSE g.bot_target[p]
        my_score == PlayerScore(g, p)
    IN IF my_score + g.turn_points[p] >= target_score THEN "bank"
       ELSE IF g.turn_points[p] = 0 THEN "roll"
       ELSE IF g.turn_points[p] >= target
            THEN IF u < BankChance(g.dice_count[p]) THEN "bank" ELSE "roll"
            ELSE "roll"

(* -------------------------- RoundStateMachine ------------------------- *)
\* A turn start that keeps the dice the player's previous turn ended with.
StartTurnKeepsDice(g, base) ==
    LET player == CurrentPlayer(g)
    IN IF player = None THEN g
       ELSE LET g1 == [g EXCEPT !.turn_points[player] = 0,
                                !.last_roll[player] = <<>>]
                g2 == Say(g1, Msg("tossup-turn-start", player, PlayerScore(g1, player), 0, 0))
            IN IF is_bot[player] THEN SetupBotTarget(g2, player, base) ELSE g2

\* _start_turn
StartTurn(g, base) ==
    LET player == CurrentPlayer(g)
    IN IF player = None THEN g
       ELSE LET g1 == [g EXCEPT !.turn_points[player] = 0,
                                !.dice_count[player] = StartingDice,
                                !.last_roll[player] = <<>>]
                g2 == Say(g1, Msg("tossup-turn-start", player, PlayerScore(g1, player), 0, 0))
            IN IF is_bot[player] THEN SetupBotTarget(g2, player, base) ELSE g2

\* A round that keeps the previous turn order.
StartRoundSameOrder(g, base) ==
    LET g1 == [g EXCEPT !.round = @ + 1, !.turn_index = 0]
        g2 == Say(g1, Msg("game-round-start", None, g1.round, 0, 0))
    IN StartTurn(g2, base)

\* A round start that hands every player of the round fresh dice.
StartRoundResetsAll(g, base) ==
    LET g1 == [g EXCEPT !.round = @ + 1]
        g2 == SetTurnPlayers(g1, ActivePlayers(g1))
        g3 == [g2 EXCEPT !.dice_count =
                  [p \in Players |-> IF IsActive(g2, p) THEN StartingDice ELSE @[p]]]
        g4 == Say(g3, Msg("game-round-start", None, g3.round, 0, 0))
    IN StartTurn(g4, base)

\* _start_round
StartRound(g, base) ==
    LET g1 == [g EXCEPT !.round = @ + 1]
        g2 == SetTurnPlayers(g1, ActivePlayers(g1))
        g3 == Say(g2, Msg("game-round-start", None, g2.round, 0, 0))
    IN StartTurn(g3, base)

\* A qualifier must exceed the target.
QualifiesStrictly(score) == score > target_score

\* "if score >= self.options.target_score"
Qualifies(score) == score >= target_score

RECURSIVE WinnersScanNoTie(_, _, _, _)
\* A scan that keeps the first player found at the greatest total.
WinnersScanNoTie(g, rest, winners, high_score) ==
    IF rest = <<>> THEN <<winners, high_score>>
    ELSE LET player == Head(rest)
             score == PlayerScore(g, player)
         IN IF Qualifies(score) /\ score > high_score
            THEN WinnersScanNoTie(g, Tail(rest), <<player>>, score)
            ELSE WinnersScanNoTie(g, Tail(rest), winners, high_score)

RECURSIVE WinnersScan(_, _, _, _)
\* The loop of _on_round_end: <<winners, high_score>>.
WinnersScan(g, rest, winners, high_score) ==
    IF rest = <<>> THEN <<winners, high_score>>
    ELSE LET player == Head(rest)
             score == PlayerScore(g, player)
         IN IF Qualifies(score)
            THEN IF score > high_score
                 THEN WinnersScan(g, Tail(rest), <<player>>, score)
                 ELSE IF score = high_score
                      THEN WinnersScan(g, Tail(rest), Append(winners, player), high_score)
                      ELSE WinnersScan(g, Tail(rest), winners, high_score)
            ELSE WinnersScan(g, Tail(rest), winners, high_score)

InSeq(s, x) == \E i \in DOMAIN s : s[i] = x

\* A tiebreaker that marks nobody.
MarkNobody(g, active_players, winners) == g

\* "Mark non-winners as spectators for the tiebreaker"
MarkSpectators(g, active_players, winners) ==
    [g EXCEPT !.is_spectator =
        [p \in Players |->
            IF InSeq(active_players, p) /\ ~InSeq(winners, p) THEN TRUE ELSE @[p]]]

\* _on_round_end
OnRoundEnd(g, base) ==
    LET active_players == ActivePlayers(g)
        scan == WinnersScan(g, active_players, <<>>, 0)
        winners == scan[1]
        high_score == scan[2]
    IN IF Len(winners) = 1
       THEN FinishGame(Say(g, Msg("tossup-winner", winners[1], high_score, 0, 0)))
       ELSE IF Len(winners) > 1
            THEN StartRound(
                    MarkSpectators(
                        Say(g, Msg("tossup-tie-tiebreaker", None, Len(winners), 0, 0)),
                        active_players, winners),
                    base)
            ELSE StartRound(g, base)

\* A turn end that passes over the next player when two are still to play.
OnTurnEndSkips(g, base) ==
    IF g.turn_index >= Len(g.turn_player_ids) - 1
    THEN OnRoundEnd(g, base)
    ELSE IF g.turn_index + 2 <= Len(g.turn_player_ids) - 1
         THEN StartTurn(AdvanceTurn(AdvanceTurn(g)), base)
         ELSE StartTurn(AdvanceTurn(g), base)

\* A turn end that looks for the round's end one turn late.
OnTurnEndLate(g, base) ==
    IF g.turn_index >= Len(g.turn_player_ids)
    THEN OnRoundEnd(g, base)
    ELSE StartTurn(AdvanceTurn(g), base)

\* _on_turn_end
OnTurnEnd(g, base) ==
    IF g.turn_index >= Len(g.turn_player_ids) - 1
    THEN OnRoundEnd(g, base)
    ELSE StartTurn(AdvanceTurn(g), base)

\* end_turn
EndTurn(g, base) == OnTurnEnd(g, base)

\* "Add green dice to turn points"
PointsGained(roll) == roll.green

\* Yellow dice leave the pool too.
DiceLeftRedOnly(roll) == roll.red

\* "Remove green dice from pool (yellow and red remain)"
DiceLeft(roll) == roll.yellow + roll.red

\* A bust that ends the turn without clearing the points.
BustKeepsPoints(g, p, base) ==
    EndTurn(Say(g, Msg("tossup-player-busts", p, g.turn_points[p], 0, 0)), base)

\* A bust that forfeits the banked total as well.
BustForfeitsTotal(g, p, base) ==
    EndTurn([Say(g, Msg("tossup-player-busts", p, g.turn_points[p], 0, 0))
                EXCEPT !.turn_points[p] = 0, !.total_score[p] = 0], base)

\* The bust branch of _action_roll.
Bust(g, p, base) ==
    EndTurn([Say(g, Msg("tossup-player-busts", p, g.turn_points[p], 0, 0))
                EXCEPT !.turn_points[p] = 0], base)

\* Fresh dice that cost the points of the turn so far.
RefreshClearsPoints(g, p) ==
    IF g.dice_count[p] = 0
    THEN Say([g EXCEPT !.dice_count[p] = StartingDice, !.turn_points[p] = 0],
             Msg("tossup-player-gets-fresh", p, StartingDice, 0, 0))
    ELSE g

\* Fresh dice, one more than the starting dice.
RefreshOneMore(g, p) ==
    IF g.dice_count[p] = 0
    THEN Say([g EXCEPT !.dice_count[p] = StartingDice + 1],
             Msg("tossup-player-gets-fresh", p, StartingDice + 1, 0, 0))
    ELSE g

\* No fresh dice.
RefreshNever(g, p) == g

\* "Check if no dice left (refresh dice)"
Refresh(g, p) ==
    IF g.dice_count[p] = 0
    THEN Say([g EXCEPT !.dice_count[p] = StartingDice],
             Msg("tossup-player-gets-fresh", p, StartingDice, 0, 0))
    ELSE g

\* _action_roll, after the dice have been rolled
ResolveRoll(g, p, roll, base) ==
    LET g1 == Say([g EXCEPT !.last_roll[p] = roll],
                  Msg("tossup-player-rolls", p, roll.green, roll.yellow, roll.red))
    IN IF IsBust(rules_variant, roll)
       THEN Bust(g1, p, base)
       ELSE LET g2 == [g1 EXCEPT !.turn_points[p] = @ + PointsGained(roll),
                                 !.dice_count[p] = DiceLeft(roll)]
                g3 == Say(g2, Msg("tossup-player-has-points", p,
                                  g2.turn_points[p], g2.dice_count[p], 0))
            IN Refresh(g3, p)

\* _action_roll
ActionRoll(g, p, faces, base) == ResolveRoll(g, p, RollDice(rules_variant, faces), base)

\* A bank that ends the game as soon as it reaches the target score.
ActionBankWins(g, p, base) ==
    LET banked == g.turn_points[p]
        g1 == AddToTeamScore(g, p, banked)
        g2 == [g1 EXCEPT !.turn_points[p] = 0]
        g3 == Say(g2, Msg("tossup-player-banks", p, banked, PlayerScore(g2, p), 0))
    IN IF Qualifies(PlayerScore(g3, p))
       THEN FinishGame(Say(g3, Msg("tossup-winner", p, PlayerScore(g3, p), 0, 0)))
       ELSE EndTurn(g3, base)

\* A bank that clears the points before reading them.
ActionBankResetFirst(g, p, base) ==
    LET g1 == [g EXCEPT !.turn_points[p] = 0]
        banked == g1.turn_points[p]
        g2 == AddToTeamScore(g1, p, banked)
        g3 == Say(g2, Msg("tossup-player-banks", p, banked, PlayerScore(g2, p), 0))
    IN EndTurn(g3, base)

\* A bank that leaves the turn points in place.
ActionBankKeepsPoints(g, p, base) ==
    LET banked == g.turn_points[p]
        g1 == AddToTeamScore(g, p, banked)
        g3 == Say(g1, Msg("tossup-player-banks", p, banked, PlayerScore(g1, p), 0))
    IN EndTurn(g3, base)

\* _action_bank
ActionBank(g, p, base) ==
    LET banked == g.turn_points[p]
        g1 == AddToTeamScore(g, p, banked)
        g2 == [g1 EXCEPT !.turn_points[p] = 0]
        g3 == Say(g2, Msg("tossup-player-banks", p, banked, PlayerScore(g2, p), 0))
    IN EndTurn(g3, base)

\* A roll check that forgets the status of the game.
IsRollEnabledAnyStatus(g, p) ==
    IF g.is_spectator[p] THEN "action-spectator"
    ELSE IF CurrentPlayer(g) # p THEN "action-not-your-turn"
    ELSE ""

\* A roll check that forgets whose turn it is.
IsRollEnabledAnyPlayer(g, p) ==
    IF g.status # "playing" THEN "action-not-playing"
    ELSE IF g.is_spectator[p] THEN "action-spectator"
    ELSE ""

\* _is_roll_enabled: the reason the action is refused, or "" (None) when enabled.
IsRollEnabled(g, p) ==
    IF g.status # "playing" THEN "action-not-playing"
    ELSE IF g.is_spectator[p] THEN "action-spectator"
    ELSE IF CurrentPlayer(g) # p THEN "action-not-your-turn"
    ELSE ""

\* A bank check that forgets the points.
IsBankEnabledNoPoints(g, p) ==
    IF g.status # "playing" THEN "action-not-playing"
    ELSE IF g.is_spectator[p] THEN "action-spectator"
    ELSE IF CurrentPlayer(g) # p THEN "action-not-your-turn"
    ELSE ""

\* _is_bank_enabled
IsBankEnabled(g, p) ==
    IF g.status # "playing" THEN "action-not-playing"
    ELSE IF g.is_spectator[p] THEN "action-spectator"
    ELSE IF CurrentPlayer(g) # p THEN "action-not-your-turn"
    ELSE IF g.turn_points[p] <= 0 THEN "tossup-need-points"
    ELSE ""

\* on_start
OnStart(g, base) ==
    LET g1 == [g EXCEPT !.status = "playing", !.game_active = TRUE, !.round = 0]
        active_players == ActivePlayers(g1)
        g2 == [g1 EXCEPT !.total_score =
                  [p \in Players |-> IF InSeq(active_players, p) THEN 0 ELSE @[p]]]
        g3 == SetTurnPlayers(g2, active_players)
        g4 == [g3 EXCEPT
                  !.turn_points = [p \in Players |->
                      IF InSeq(active_players, p) THEN 0 ELSE @[p]],
                  !.dice_count = [p \in Players |->
                      IF InSeq(active_players, p) THEN StartingDice ELSE @[p]],
                  !.last_roll = [p \in Players |->
                      IF InSeq(active_players, p) THEN <<>> ELSE @[p]]]
    IN StartRound(g4, base)

(* ------------------------------ actions ------------------------------- *)
\* The explored part of the state space.
WithinBounds(g) ==
    /\ g.round <= MaxRound
    /\ \A p \in Players : g.turn_points[p] <= MaxTurnPoints

Apply(g) ==
    /\ WithinBounds(g)
    /\ status' = g.status
    /\ game_active' = g.game_active
    /\ round' = g.round
    /\ turn_player_ids' = g.turn_player_ids
    /\ turn_index' = g.turn_index
    /\ turn_points' = g.turn_points
    /\ dice_count' = g.dice_count
    /\ last_roll' = g.last_roll
    /\ is_spectator' = g.is_spectator
    /\ total_score' = g.total_score
    /\ bot_target' = g.bot_target
    /\ out' = g.out
    /\ UNCHANGED <<is_bot, rules_variant, target_score, probes>>

BaseTargets == BaseTargetMin..BaseTargetMax

\* One draw of randint(10, 25) for each target _setup_bot_target can give
\* player p in g: draws that give the same target give the same state.
DistinctDraws(g, p) ==
    {CHOOSE b \in BaseTargets : BotTargetFor(g, p, b) = t :
        t \in {BotTargetFor(g, p, b) : b \in BaseTargets}}

\* Whether the handler that produced g ended by starting a bot's turn, which is
\* where _setup_bot_target draws randint(10, 25).
StartedBotTurn(g) ==
    /\ \E p \in Players : is_bot[p]
    /\ g.out # <<>>
    /\ g.out[Len(g.out)].msg = "tossup-turn-start"
    /\ is_bot[g.out[Len(g.out)].player]

\* The draws of randint(10, 25) a handler consumes, g being its result under
\* the least draw: every value if it reached _setup_bot_target, none otherwise.
BaseDraws(g) ==
    IF StartedBotTurn(g)
    THEN DistinctDraws(g, g.out[Len(g.out)].player)
    ELSE {BaseTargetMin}

\* random.random(), in hundredths. bot_think only compares the draw with a
\* chance between 2 and 55 hundredths: the least and the greatest draw give
\* both outcomes.
Hundredths == 0..99
ThinkDraws == {0, 99}

\* execute_action(player, "roll"): the handler runs only if the action is enabled.
ExecuteRoll(g, p, faces, base) ==
    IF IsRollEnabled(g, p) = ""
    THEN ActionRoll(g, p, faces, base)
    ELSE Say(g, Refusal("roll", p, IsRollEnabled(g, p)))

\* execute_action(player, "bank")
ExecuteBank(g, p, base) ==
    IF IsBankEnabled(g, p) = ""
    THEN ActionBank(g, p, base)
    ELSE Say(g, Refusal("bank", p, IsBankEnabled(g, p)))

\* The faces drawn by a roll of p's dice (none when the roll is refused), one
\* draw for each triple of counts: the handler reads the faces only through
\* the counts.
FaceDraws(g, p) ==
    IF IsRollEnabled(g, p) = ""
    THEN LET all == Faces(rules_variant, g.dice_count[p])
         IN {CHOOSE f \in all : RollDice(rules_variant, f) = r :
                r \in {RollDice(rules_variant, f) : f \in all}}
    ELSE {<<>>}

\* The state after construction and add_player for every player.
GameInit ==
    /\ status = "waiting"
    /\ game_active = FALSE
    /\ round = 0
    /\ turn_player_ids = <<>>
    /\ turn_index = 0
    /\ turn_points = [p \in Players |-> 0]
    /\ dice_count = [p \in Players |-> 0]
    /\ last_roll = [p \in Players |-> <<>>]
    /\ is_spectator = [p \in Players |-> FALSE]
    /\ total_score = [p \in Players |-> 0]
    /\ bot_target = [p \in Players |-> NoTarget]
    /\ out = <<>>

\* The players are all users or all bots.
Init ==
    /\ GameInit
    /\ is_bot \in {[p \in Players |-> FALSE], [p \in Players |-> TRUE]}
    /\ rules_variant \in Variants
    /\ target_score = TargetScore
    /\ probe_in = <<>>
    /\ probe_out = <<>>

\* The eligible players at the start: the tracked players who are no
\* spectators, and the further ones of the lobby.
EligibleCount == Len(ActivePlayers(Game)) + Len(probe_in)

\* A start that skips the count of the players.
StartGameUnchecked(g, n, base) == OnStart(g, base)

\* The start of the game asked by the host with n eligible players: refused
\* outside get_min_players()..get_max_players(), before anything is changed.
StartGame(g, n, base) ==
    IF n < MinPlayers \/ n > MaxPlayers
    THEN Say(g, Refusal("start", None, "configuration-error"))
    ELSE OnStart(g, base)

\* The host starts the game. An accepted start is explored for the tracked
\* players only.
Start ==
    /\ status = "waiting"
    /\ \/ probe_in = <<>>
       \/ EligibleCount < MinPlayers
       \/ EligibleCount > MaxPlayers
    /\ \E base \in BaseDraws(StartGame(Game, EligibleCount, BaseTargetMin)) :
          Apply(StartGame(Game, EligibleCount, base))

\* A user asks to roll.
Roll(p) ==
    /\ ~is_bot[p]
    /\ status # "waiting"
    /\ \E faces \in FaceDraws(Game, p) :
       \E base \in BaseDraws(ExecuteRoll(Game, p, faces, BaseTargetMin)) :
          Apply(ExecuteRoll(Game, p, faces, base))

\* A user asks to bank.
Bank(p) ==
    /\ ~is_bot[p]
    /\ status # "waiting"
    /\ \E base \in BaseDraws(ExecuteBank(Game, p, BaseTargetMin)) :
          Apply(ExecuteBank(Game, p, base))

\* A tick that never sets the missing target up.
OnTickNoSetup(g, lazy_base, u, faces, base) ==
    IF ~g.game_active THEN g
    ELSE LET player == CurrentPlayer(g)
         IN IF player = None \/ ~is_bot[player] THEN g
            ELSE LET choice == BotThink(g, player, u)
                 IN IF choice = "bank"
                    THEN ExecuteBank(g, player, base)
                    ELSE ExecuteRoll(g, player, faces, base)

\* A tick that sets a missing target to 0 instead of computing it.
OnTickZeroTarget(g, lazy_base, u, faces, base) ==
    IF ~g.game_active THEN g
    ELSE LET player == CurrentPlayer(g)
         IN IF player = None \/ ~is_bot[player] THEN g
            ELSE LET g1 == IF g.bot_target[player] = NoTarget
                           THEN [g EXCEPT !.bot_target[player] = 0]
                           ELSE g
                     choice == BotThink(g1, player, u)
                 IN IF choice = "bank"
                    THEN ExecuteBank(g1, player, base)
                    ELSE ExecuteRoll(g1, player, faces, base)

\* on_tick, at a tick on which the current bot is due to act: the target is
\* set up if missing, then BotHelper has the bot think and executes its choice.
OnTick(g, lazy_base, u, faces, base) ==
    IF ~g.game_active THEN g
    ELSE LET player == CurrentPlayer(g)
         IN IF player = None \/ ~is_bot[player] THEN g
            ELSE LET g1 == IF g.bot_target[player] = NoTarget
                           THEN SetupBotTarget(g, player, lazy_base)
                           ELSE g
                     choice == BotThink(g1, player, u)
                 IN IF choice = "bank"
                    THEN ExecuteBank(g1, player, base)
                    ELSE ExecuteRoll(g1, player, faces, base)

\* The draws one tick may consume.
TickFaces(g) ==
    LET player == CurrentPlayer(g)
    IN IF g.game_active /\ player # None THEN FaceDraws(g, player) ELSE {<<>>}

LazyDraws(g) ==
    LET player == CurrentPlayer(g)
    IN IF g.game_active /\ player # None /\ is_bot[player]
          /\ g.bot_target[player] = NoTarget
       THEN DistinctDraws(g, player) ELSE {BaseTargetMin}

Tick ==
    /\ status # "waiting"
    /\ \E p \in Players : is_bot[p]
    /\ \E lazy_base \in LazyDraws(Game) : \E u \in ThinkDraws :
       \E faces \in TickFaces(Game) :
       \E base \in BaseDraws(OnTick(Game, lazy_base, u, faces, BaseTargetMin)) :
          Apply(OnTick(Game, lazy_base, u, faces, base))

Next ==
    \/ Start
    \/ \E p \in Players : Roll(p)
    \/ \E p \in Players : Bank(p)
    \/ Tick

Spec == Init /\ [][Next]_vars

(* ----------------------------- GameSnapshot --------------------------- *)
\* One entry of the snapshot's "players" list.
PlayerRow(g, p) ==
    [id |-> p, is_bot |-> is_bot[p], is_spectator |-> g.is_spectator[p],
     turn_points |-> g.turn_points[p], dice_count |-> g.dice_count[p],
     last_roll |-> g.last_roll[p]]

\* One entry of the team manager's "teams" list (individual mode: one member).
TeamRow(g, p) == [members |-> <<p>>, total_score |-> g.total_score[p]]

\* A snapshot that leaves the last rolls out.
EncodeWithoutLastRoll(g) ==
    [status |-> g.status, game_active |-> g.game_active, round |-> g.round,
     turn_index |-> g.turn_index, turn_player_ids |-> g.turn_player_ids,
     players |-> [i \in 1..NumPlayers |->
                    [PlayerRow(g, PlayerList[i]) EXCEPT !.last_roll = <<>>]],
     team_manager |-> [teams |-> [i \in 1..NumPlayers |-> TeamRow(g, PlayerList[i])]],
     options |-> [target_score |-> target_score, starting_dice |-> StartingDice,
                  rules_variant |-> rules_variant]]

\* to_json(): the game's fields, the players as a list of rows, the totals
\* inside the team manager, the options. A bot's target is no field of it.
Encode(g) ==
    [status |-> g.status, game_active |-> g.game_active, round |-> g.round,
     turn_index |-> g.turn_index, turn_player_ids |-> g.turn_player_ids,
     players |-> [i \in 1..NumPlayers |-> PlayerRow(g, PlayerList[i])],
     team_manager |-> [teams |-> [i \in 1..NumPlayers |-> TeamRow(g, PlayerList[i])]],
     options |-> [target_score |-> target_score, starting_dice |-> StartingDice,
                  rules_variant |-> rules_variant]]

\* The row / the team of player p in a snapshot.
RowOf(snap, p) ==
    snap.players[CHOOSE i \in DOMAIN snap.players : snap.players[i].id = p]
TeamOf(snap, p) ==
    snap.team_manager.teams[CHOOSE i \in DOMAIN snap.team_manager.teams :
                                InSeq(snap.team_manager.teams[i].members, p)]

\* from_json(): the game rebuilt from a snapshot; no bot has a target yet.
Decode(snap) ==
    [status |-> snap.status, game_active |-> snap.game_active, round |-> snap.round,
     turn_player_ids |-> snap.turn_player_ids, turn_index |-> snap.turn_index,
     turn_points |-> [p \in Players |-> RowOf(snap, p).turn_points],
     dice_count |-> [p \in Players |-> RowOf(snap, p).dice_count],
     last_roll |-> [p \in Players |-> RowOf(snap, p).last_roll],
     is_spectator |-> [p \in Players |-> RowOf(snap, p).is_spectator],
     total_score |-> [p \in Players |-> TeamOf(snap, p).total_score],
     bot_target |-> [p \in Players |-> NoTarget],
     out |-> <<>>,
     is_bot |-> [p \in Players |-> RowOf(snap, p).is_bot],
     options |-> snap.options]

\* The game is saved and loaded again between two ticks.
Reload == Apply(Decode(Encode(Game)))

ReloadNext == Next \/ Reload

\* The game with saves and reloads at any point between entry points.
ReloadSpec == Init /\ [][ReloadNext]_vars

(* -------------------------- the start alone --------------------------- *)
\* A lobby of users: any of the tracked players may have joined as a
\* spectator, and up to MaxExtra further eligible players may be waiting.
LobbyInit ==
    /\ status = "waiting"
    /\ game_active = FALSE
    /\ round = 0
    /\ turn_player_ids = <<>>
    /\ turn_index = 0
    /\ turn_points = [p \in Players |-> 0]
    /\ dice_count = [p \in Players |-> 0]
    /\ last_roll = [p \in Players |-> <<>>]
    /\ is_spectator \in [Players -> BOOLEAN]
    /\ total_score = [p \in Players |-> 0]
    /\ bot_target = [p \in Players |-> NoTarget]
    /\ out = <<>>
    /\ is_bot = [p \in Players |-> FALSE]
    /\ rules_variant \in Variants
    /\ target_score = TargetScore
    /\ probe_in \in {[i \in 1..n |-> NumPlayers + i] : n \in 0..MaxExtra}
    /\ probe_out = <<>>

LobbyNext ==
    \/ Start
    \/ \E p \in Players : Roll(p)
    \/ \E p \in Players : Bank(p)

LobbySpec == LobbyInit /\ [][LobbyNext]_vars

(* ---------------------- the dice resolution alone --------------------- *)
DiceInit ==
    /\ GameInit
    /\ is_bot = [p \in Players |-> FALSE]
    /\ rules_variant \in Variants
    /\ target_score = TargetScore
    /\ probe_in \in UNION {Faces(rules_variant, n) : n \in 1..MaxDice}
    /\ probe_out = <<>>

\* The dice are resolved and the bust verdict taken, as _action_roll does.
Resolve ==
    /\ probe_out = <<>>
    /\ probe_out' = [roll |-> RollDice(rules_variant, probe_in),
                     bust |-> IsBust(rules_variant, RollDice(rules_variant, probe_in))]
    /\ UNCHANGED <<gvars, out, probe_in>>

DiceSpec == DiceInit /\ [][Resolve]_vars

(* ------------------------------ GameResult ----------------------------- *)
RECURSIVE SortedByScore(_, _)
\* get_sorted_teams(by_score=True, descending=True) over the teams in rest:
\* greatest total first, teams of equal total in their order in rest.
SortedByScore(g, rest) ==
    IF rest = <<>> THEN <<>>
    ELSE LET best == CHOOSE i \in DOMAIN rest :
                        /\ \A j \in DOMAIN rest :
                              PlayerScore(g, rest[j]) <= PlayerScore(g, rest[i])
                        /\ \A j \in 1..(i - 1) :
                              PlayerScore(g, rest[j]) < PlayerScore(g, rest[i])
             others == [j \in 1..(Len(rest) - 1) |->
                          IF j < best THEN rest[j] ELSE rest[j + 1]]
         IN <<rest[best]>> \o SortedByScore(g, others)

\* build_game_result: the fields drawn from the state of the game. Every
\* player has a team of their own (individual mode).
BuildGameResult(g) ==
    LET sorted_teams == SortedByScore(g, PlayerList)
        winner == IF sorted_teams # <<>> THEN sorted_teams[1] ELSE None
    IN [winner_name   |-> winner,
        winner_score  |-> IF winner # None THEN PlayerScore(g, winner) ELSE 0,
        final_scores  |-> [i \in DOMAIN sorted_teams |->
                              <<sorted_teams[i], PlayerScore(g, sorted_teams[i])>>],
        rounds_played |-> g.round,
        target_score  |-> target_score,
        rules_variant |-> rules_variant,
        starting_dice |-> StartingDice]

(* --------------------------- BotPolicy alone --------------------------- *)
\* Totals around the thresholds of _setup_bot_target: nothing, 20 short of
\* the target, at the target, and beyond it.
PolicyScores == {0, PolicyTargetScore - DesperateMargin, PolicyTargetScore,
                 PolicyTargetScore + 2}

\* A game of bots being played, where _start_turn is about to run for the
\* current bot. A spectator joined as one and has no total; two players or
\* more take turns.
PolicyInit ==
    /\ status = "playing"
    /\ game_active = TRUE
    /\ round = 1
    /\ is_spectator \in {f \in [Players -> BOOLEAN] :
                            Cardinality({p \in Players : ~f[p]}) >= MinPlayers}
    /\ turn_player_ids = SelectSeq(PlayerList, LAMBDA p : ~is_spectator[p])
    /\ turn_index \in 0..(Len(turn_player_ids) - 1)
    /\ turn_points = [p \in Players |-> 0]
    /\ dice_count = [p \in Players |-> IF is_spectator[p] THEN 0 ELSE StartingDice]
    /\ last_roll = [p \in Players |-> <<>>]
    /\ total_score \in {f \in [Players -> PolicyScores] :
                           \A p \in Players : is_spectator[p] => f[p] = 0}
    /\ bot_target = [p \in Players |-> NoTarget]
    /\ is_bot = [p \in Players |-> TRUE]
    /\ rules_variant = "Standard"
    /\ target_score = PolicyTargetScore
    /\ out = <<>>
    /\ probe_in = <<>>
    /\ probe_out = <<>>

\* _start_turn for the current bot, which sets its target.
PolicyStartTurn ==
    /\ bot_target[CurrentPlayer(Game)] = NoTarget
    /\ probe_out = <<>>
    /\ \E base \in BaseTargets : Apply(StartTurn(Game, base))

\* bot_think for the current bot, with the target it holds (or none yet), at
\* some turn points and dice of its turn.
PolicyThink ==
    /\ probe_out = <<>>
    /\ \E tp \in 0..MaxPolicyPoints, dice \in 1..MaxPolicyDice, u \in ThinkDraws :
          LET p == CurrentPlayer(Game)
              g == [Game EXCEPT !.turn_points[p] = tp, !.dice_count[p] = dice]
          IN probe_out' = [turn_points |-> tp, dice_count |-> dice, u |-> u,
                           choice |-> BotThink(g, p, u)]
    /\ UNCHANGED <<gvars, out, probe_in>>

PolicyNext == PolicyStartTurn \/ PolicyThink
PolicySpec == PolicyInit /\ [][PolicyNext]_vars

(* ------------------------------- claims ------------------------------- *)
\* What a step did, read from what it broadcast.
Cur == CurrentPlayer(Game)
First(m) == out' # <<>> /\ out'[1].msg = m
AcceptedRoll(p) == First("tossup-player-rolls") /\ out'[1].player = p
NonBustRoll(p) == AcceptedRoll(p) /\ out'[2].msg = "tossup-player-has-points"
BustRoll(p) == AcceptedRoll(p) /\ out'[2].msg = "tossup-player-busts"
AcceptedBank(p) == First("tossup-player-banks") /\ out'[1].player = p
RefusedRoll(p) == First("roll") /\ out'[1].player = p
RefusedBank(p) == First("bank") /\ out'[1].player = p
\* The step ended p's turn as the last of the round.
RoundEnded(p) ==
    /\ status = "playing"
    /\ Cur = p
    /\ turn_index >= Len(turn_player_ids) - 1
    /\ BustRoll(p) \/ AcceptedBank(p)
\* The non-spectators holding the greatest total that reaches the target, by
\* the totals the round ended with.
Qualifiers == {p \in Players : ~is_spectator[p] /\ total_score'[p] >= TargetScore}
Top == {p \in Qualifiers : \A q \in Qualifiers : total_score'[p] >= total_score'[q]}
LastOut == out[Len(out)]

\* C1: the bust verdict follows the variant's own rule from the triple:
\* Standard busts iff no green and some red, PlayPalace iff no green and no
\* yellow, for every roll of one or more dice.
C1_BustRule ==
    probe_out # <<>> =>
        LET r == probe_out.roll
        IN /\ r.green + r.yellow + r.red >= 1
           /\ rules_variant = "Standard" =>
                 (probe_out.bust <=> (r.green = 0 /\ r.red > 0))
           /\ rules_variant = "PlayPalace" =>
                 (probe_out.bust <=> (r.green = 0 /\ r.yellow = 0))
\* A Standard roll of yellows only was resolved and is no bust.
C1_Witness ==
    /\ probe_out # <<>>
    /\ rules_variant = "Standard"
    /\ probe_out.roll = [green |-> 0, yellow |-> MaxDice, red |-> 0]
    /\ ~probe_out.bust

C4_Bank ==
    [][\A p \in Players : AcceptedBank(p) =>
          /\ turn_points[p] > 0
          /\ total_score'[p] = total_score[p] + turn_points[p]
          /\ \A q \in Players \ {p} : total_score'[q] = total_score[q]
          /\ turn_points'[p] = 0
          /\ Cur' # p \/ round' > round \/ status' = "finished"]_vars
\* A bank on top of an earlier total.
C4_Witness ==
    /\ out # <<>>
    /\ out[1].msg = "tossup-player-banks"
    /\ out[1].x > 0
    /\ out[1].y > out[1].x
    /\ total_score[out[1].player] = out[1].y

\* C5: a bank asked with no turn points, or by a player who is not current, is
\* refused and changes nothing.
C5_BankRefused ==
    [][\A p \in Players : (turn_points[p] = 0 \/ Cur # p) =>
          /\ ~AcceptedBank(p)
          /\ RefusedBank(p) => UNCHANGED gvars]_vars
\* The current player asked to bank with no points and was refused.
C5_Witness ==
    /\ out # <<>>
    /\ out[1].msg = "bank"
    /\ out[1].reason = "tossup-need-points"
    /\ Cur = out[1].player
    /\ status = "playing"

\* C6: a roll is accepted only from the current, non-spectator player of a
\* game being played and is otherwise refused without any change; at most one
\* player has roll or bank enabled.
C6_RollGuard ==
    /\ [](Cardinality({p \in Players : IsRollEnabled(Game, p) = ""
                                      \/ IsBankEnabled(Game, p) = ""}) <= 1)
    /\ [][\A p \in Players :
            /\ AcceptedRoll(p) =>
                  status = "playing" /\ ~is_spectator[p] /\ Cur = p
            /\ RefusedRoll(p) =>
                  /\ UNCHANGED gvars
                  /\ ~(status = "playing" /\ ~is_spectator[p] /\ Cur = p)]_vars
\* A player asked to roll out of turn and was refused.
C6_Witness ==
    /\ out # <<>>
    /\ out[1].msg = "roll"
    /\ out[1].reason = "action-not-your-turn"
    /\ status = "playing"

\* C7: at a round end, over the non-spectators: nobody at the target starts a
\* new round; exactly one player holding the greatest total at or over the
\* target finishes the game with that player as the winner.
C7_RoundEnd ==
    [][\A p \in Players : RoundEnded(p) =>
          /\ Qualifiers = {} =>
                status' = "playing" /\ game_active' /\ round' = round + 1
          /\ Cardinality(Top) = 1 =>
                /\ status' = "finished"
                /\ ~game_active'
                /\ LastOut'.msg = "tossup-winner"
                /\ LastOut'.player \in Top
                /\ LastOut'.x = total_score'[LastOut'.player]]_vars
\* A game won by the greater of two totals at or over the target.
C7_Witness ==
    /\ status = "finished"
    /\ out # <<>>
    /\ LastOut.msg = "tossup-winner"
    /\ \E q \in Players : /\ q # LastOut.player
                          /\ ~is_spectator[q]
                          /\ total_score[q] >= TargetScore
                          /\ total_score[q] < total_score[LastOut.player]

\* C8: a round ending with two or more players sharing the greatest total at
\* or over the target keeps the game playing, makes every other active player
\* a spectator, and gives the next round the tied players in their order.
C8_TieBreak ==
    [][\A p \in Players : (RoundEnded(p) /\ Cardinality(Top) >= 2) =>
          /\ status' = "playing"
          /\ round' = round + 1
          /\ \A q \in Players :
                is_spectator'[q] <=> (is_spectator[q] \/ q \notin Top)
          /\ turn_player_ids' =
                SelectSeq(turn_player_ids, LAMBDA q : q \in Top)]_vars
\* A tiebreaker round of two players with the third a spectator.
C8_Witness ==
    /\ status = "playing"
    /\ \E i \in DOMAIN out : out[i].msg = "tossup-tie-tiebreaker"
    /\ Len(turn_player_ids) = 2
    /\ \E q \in Players : is_spectator[q]

C11_OnlyCurrentAccrues ==
    /\ Cardinality({p \in Players : turn_points[p] # 0}) <= 1
    /\ \A p \in Players : turn_points[p] # 0 => Cur = p
\* The second player of the turn order holds unbanked points after the first
\* banked some.
C11_Witness ==
    /\ status = "playing"
    /\ turn_index = 1
    /\ turn_points[Cur] > 0
    /\ total_score[turn_player_ids[1]] > 0

\* C12: no step lowers a total, and a step that changes a player's total is an
\* accepted bank by that player, which raises it.
C12_TotalsOnlyGrow ==
    [][\A p \in Players :
          /\ total_score'[p] >= total_score[p]
          /\ total_score'[p] # total_score[p] =>
                AcceptedBank(p) /\ total_score'[p] > total_score[p]]_vars
\* A player with a banked total busted, another having banked before.
C12_Witness ==
    /\ Len(out) >= 2
    /\ out[2].msg = "tossup-player-busts"
    /\ total_score[out[2].player] > 0
    /\ \E q \in Players \ {out[2].player} : total_score[q] > 0

\* C13: in every state of a game being played the turn index points into the
\* turn order, at a player who is no spectator.
C13_TurnIndexValid ==
    status = "playing" =>
        /\ 0 <= turn_index
        /\ turn_index < Len(turn_player_ids)
        /\ ~is_spectator[turn_player_ids[turn_index + 1]]
\* The last turn of a tie-break round, whose turn order shrank to two players.
C13_Witness ==
    /\ status = "playing"
    /\ Len(turn_player_ids) = 2
    /\ turn_index = 1
    /\ \E q \in Players : is_spectator[q]

ObsOf(g) ==
    [status |-> g.status, game_active |-> g.game_active, round |-> g.round,
     turn_player_ids |-> g.turn_player_ids, turn_index |-> g.turn_index,
     turn_points |-> g.turn_points, dice_count |-> g.dice_count,
     last_roll |-> g.last_roll, is_spectator |-> g.is_spectator,
     total_score |-> g.total_score, out |-> g.out]
ObsAfter ==
    [status |-> status', game_active |-> game_active', round |-> round',
     turn_player_ids |-> turn_player_ids', turn_index |-> turn_index',
     turn_points |-> turn_points', dice_count |-> dice_count',
     last_roll |-> last_roll', is_spectator |-> is_spectator',
     total_score |-> total_score', out |-> out']
\* The targets _start_turn can give player p in g.
TurnStartTargets(g, p) == {BotTargetFor(g, p, b) : b \in BaseTargets}
\* The targets the current bot can hold in a game that was never reloaded.
PlainTargets ==
    IF status = "playing" /\ Cur # None /\ is_bot[Cur]
    THEN {[bot_target EXCEPT ![Cur] = t] : t \in TurnStartTargets(Game, Cur)}
    ELSE {bot_target}
\* The step is one an entry point of the game takes from g.
PlainStepFrom(g) ==
    \/ /\ status = "waiting"
       /\ ObsOf(StartGame(g, EligibleCount, BaseTargetMin)) = ObsAfter
    \/ \E p \in Players :
          /\ ~is_bot[p]
          /\ status # "waiting"
          /\ out' # <<>> /\ out'[1].player = p
          /\ \/ /\ out'[1].msg \in {"tossup-player-rolls", "roll"}
                /\ \E faces \in FaceDraws(g, p) :
                      ObsOf(ExecuteRoll(g, p, faces, BaseTargetMin)) = ObsAfter
             \/ ObsOf(ExecuteBank(g, p, BaseTargetMin)) = ObsAfter
    \/ /\ status # "waiting"
       /\ \E p \in Players : is_bot[p]
       /\ \E u \in ThinkDraws : \E faces \in TickFaces(g) :
             ObsOf(OnTick(g, BaseTargetMin, u, faces, BaseTargetMin)) = ObsAfter

BotTickStep ==
    /\ status = "playing"
    /\ Cur # None
    /\ is_bot[Cur]
    /\ out' # <<>>
    /\ out'[1].player = Cur
    /\ out'[1].msg \in {"tossup-player-rolls", "tossup-player-banks", "roll", "bank"}
\* C16: a snapshot holds no bot's target, so a reloaded game has none; and
\* a tick on which the current bot makes its choice leaves that bot with a
\* target: on_tick set it up before bot_think read it.
C16_TargetRecomputed ==
    /\ [](Decode(Encode(Game)).bot_target = [p \in Players |-> NoTarget])
    /\ [][BotTickStep => bot_target'[Cur] # NoTarget]_vars
\* A bot with no points yet rolled on a target recomputed after a reload at
\* the start of its turn, the first bot's target being gone.
C16_Witness ==
    /\ status = "playing"
    /\ turn_index = 1
    /\ is_bot[Cur]
    /\ bot_target[turn_player_ids[1]] = NoTarget
    /\ bot_target[Cur] # NoTarget
    /\ Len(out) = 2
    /\ out[1].msg = "tossup-player-rolls"
    /\ out[1].player = Cur
    /\ out[2].msg = "tossup-player-has-points"
    /\ out[2].x = out[1].x

C18_FinishedTerminal ==
    [][/\ (status' = "finished" /\ status # "finished") =>
             /\ status = "playing"
             /\ RoundEnded(Cur)
             /\ Cardinality(Top) = 1
       /\ status = "finished" =>
             /\ status' = "finished"
             /\ UNCHANGED <<game_active, round, turn_index, turn_player_ids,
                            turn_points, dice_count, last_roll, total_score,
                            is_spectator>>
             /\ \A p \in Players : ~AcceptedRoll(p) /\ ~AcceptedBank(p)
             /\ \/ out' = <<>>
                \/ /\ out'[1].reason = "action-not-playing"
                   /\ ~is_bot[out'[1].player]]_vars
\* The winner asked to roll again after the game was finished, and was refused.
C18_Witness ==
    /\ status = "finished"
    /\ out # <<>>
    /\ out[1].msg = "roll"
    /\ out[1].reason = "action-not-playing"
    /\ total_score[out[1].player] >= TargetScore
    /\ Cur = out[1].player

\* C19: a roll that does not bust and leaves no dice gives the roller
\* starting_dice dice, keeps the roller the current player of the game being
\* played, and leaves the turn points at their value after the greens of the
\* roll were added.
C19_FreshDice ==
    [][\A p \in Players : (NonBustRoll(p) /\ out'[2].y = 0) =>
          /\ dice_count'[p] = StartingDice
          /\ status' = "playing"
          /\ Cur' = p
          /\ round' = round /\ turn_index' = turn_index
          /\ turn_points'[p] = turn_points[p] + out'[1].x
          /\ out'[2].x = turn_points'[p]]_vars
\* A second roll of the turn, of one die, came up green and brought fresh dice.
C19_Witness ==
    /\ Len(out) = 3
    /\ out[3].msg = "tossup-player-gets-fresh"
    /\ out[1].x = 1
    /\ turn_points[out[1].player] > out[1].x
    /\ dice_count[out[1].player] = StartingDice
    /\ Cur = out[1].player

\* C20: an accepted roll of n >= 1 dice records as last roll a triple of
\* counts, none negative, whose sum is n, the dice held before the roll.
C20_TripleSumsToDice ==
    [][\A p \in Players : AcceptedRoll(p) =>
          /\ dice_count[p] >= 1
          /\ last_roll'[p] = [green |-> out'[1].x, yellow |-> out'[1].y,
                              red |-> out'[1].z]
          /\ last_roll'[p].green >= 0
          /\ last_roll'[p].yellow >= 0
          /\ last_roll'[p].red >= 0
          /\ last_roll'[p].green + last_roll'[p].yellow + last_roll'[p].red
                = dice_count[p]]_vars
\* A roll of a single die left over from the roll before, showing yellow.
C20_Witness ==
    /\ out # <<>>
    /\ out[1].msg = "tossup-player-rolls"
    /\ last_roll[out[1].player] = [green |-> 0, yellow |-> 1, red |-> 0]
    /\ turn_points[out[1].player] > 0

\* The policy evaluated for the current bot as a tick evaluates it: with
\* the target the bot holds, or the one set up lazily when it holds none.
BankChosen(u, lazy_base) ==
    LET g1 == IF bot_target[Cur] = NoTarget
              THEN SetupBotTarget(Game, Cur, lazy_base) ELSE Game
    IN BotThink(g1, Cur, u) = "bank"
\* C21: the policy never chooses bank for a bot whose turn points are 0: in
\* every state of a game being played in which the current player is a bot
\* with no turn points, tie-break rounds included, every draw makes it roll.
C21_NeverBanksEmpty ==
    (status = "playing" /\ game_active /\ Cur # None /\ is_bot[Cur]
        /\ turn_points[Cur] = 0)
    => \A lazy_base \in LazyDraws(Game) : \A u \in Hundredths :
          ~BankChosen(u, lazy_base)

\* The target bot_think compares the current bot's turn points with.
HeldTarget == IF bot_target[Cur] = NoTarget THEN DefaultTarget ELSE bot_target[Cur]
C23_TargetRule ==
    (status = "playing" /\ bot_target[Cur] # NoTarget) =>
        LET Opp == {q \in Players \ {Cur} : ~is_spectator[q]}
            Hit == {q \in Opp : total_score[q] >= target_score}
            H == CHOOSE h \in {total_score[q] : q \in Hit} :
                     \A q \in Hit : total_score[q] <= h
            t == bot_target[Cur]
        IN /\ t >= 0
           /\ Hit # {} => t = Max(0, H + 1 - total_score[Cur])
           /\ (Hit = {} /\ \E q \in Opp : total_score[q] >= target_score - DesperateMargin)
                 => t = DesperateTarget
           /\ (Hit = {} /\ \A q \in Opp : total_score[q] < target_score - DesperateMargin)
                 => t \in BaseTargetMin..BaseTargetMax
\* A bot ahead of an opponent who reached the target score: its target is 0.
C23_Witness ==
    /\ target_score = PolicyTargetScore
    /\ bot_target[Cur] = 0
    /\ \E q \in Players \ {Cur} : ~is_spectator[q] /\ total_score[q] >= target_score
    /\ \E q \in Players : is_spectator[q]

\* The opponents of p taking turns whose total reaches the target score.
OpponentsAtTarget(p) ==
    {q \in Players \ {p} : ~is_spectator[q] /\ total_score[q] >= target_score}
\* C24: in a turn in which an opponent's total already reaches the target
\* score, a bot banks only what overtakes: after every bank of a bot its
\* total is above the total of every such opponent.
C24_BanksOnlyAhead ==
    [][\A p \in Players :
          (is_bot[p] /\ AcceptedBank(p) /\ OpponentsAtTarget(p) # {})
          => \A q \in OpponentsAtTarget(p) : total_score'[p] > total_score[q]]_vars

\* The step ended p's turn: p, current, went bust or banked.
TurnEnded(p) == status = "playing" /\ Cur = p /\ (BustRoll(p) \/ AcceptedBank(p))
\* How many of the step's broadcasts are m.
Said(m) == Cardinality({i \in 1..Len(out') : out'[i].msg = m})
\* C25: within a round the players of the turn order take one turn each, in
\* order. The end of a turn that is not the round's last makes the next
\* player of the order current, in the same round and order, and starts
\* that player's turn; the end of the last player's turn runs the round's
\* end once (a winner, or one new round from its first player); and no
\* other step moves the turn index, the order or the round.
C25_OneTurnEach ==
    [][status = "playing" =>
          /\ \A p \in Players :
                (TurnEnded(p) /\ turn_index < Len(turn_player_ids) - 1)
                => /\ status' = "playing"
                   /\ round' = round
                   /\ turn_player_ids' = turn_player_ids
                   /\ turn_index' = turn_index + 1
                   /\ Said("tossup-turn-start") = 1
                   /\ out'[Len(out')].msg = "tossup-turn-start"
                   /\ out'[Len(out')].player = turn_player_ids[turn_index + 2]
                   /\ Said("game-round-start") = 0
                   /\ Said("tossup-winner") = 0
          /\ \A p \in Players :
                (TurnEnded(p) /\ turn_index = Len(turn_player_ids) - 1)
                => \/ /\ status' = "finished"
                      /\ Said("tossup-winner") = 1
                      /\ Said("game-round-start") = 0
                      /\ Said("tossup-turn-start") = 0
                      /\ UNCHANGED <<round, turn_index, turn_player_ids>>
                   \/ /\ status' = "playing"
                      /\ round' = round + 1
                      /\ turn_index' = 0
                      /\ Said("tossup-winner") = 0
                      /\ Said("game-round-start") = 1
                      /\ Said("tossup-turn-start") = 1
                      /\ out'[Len(out')].player = turn_player_ids'[1]
          /\ (\A p \in Players : ~TurnEnded(p))
                => UNCHANGED <<status, round, turn_index, turn_player_ids>>]_vars
\* The second player of three is current in round 2, the first having had
\* a turn in both rounds and the third only in round 1.
C25_Witness ==
    /\ status = "playing"
    /\ round = 2
    /\ Len(turn_player_ids) = NumPlayers
    /\ turn_index = 1
    /\ last_roll[turn_player_ids[1]] # <<>>
    /\ out # <<>>
    /\ LastOut.msg = "tossup-turn-start"
    /\ LastOut.player = turn_player_ids[2]

\* The step started q's turn: the turn start it announced last is q's.
TurnStarted(q) ==
    /\ out' # <<>>
    /\ out'[Len(out')].msg = "tossup-turn-start"
    /\ out'[Len(out')].player = q
\* C26: whenever a player's turn begins (the first turn of the game, the
\* turn after another player's bust or bank, the first turn of a new or
\* tie-break round) that player has 0 turn points, the starting number of
\* dice and no last roll, whatever their previous turn left.
C26_TurnStartsClean ==
    [][/\ \A q \in Players :
             TurnStarted(q) => /\ Cur' = q
                               /\ turn_points'[q] = 0
                               /\ dice_count'[q] = StartingDice
                               /\ last_roll'[q] = <<>>
       /\ (status' = "playing" /\ (Cur' # Cur \/ round' # round))
             => TurnStarted(Cur')]_vars
\* The first turn of a tie-break round has begun for a tied player, whose
\* previous turn ended with a bank.
C26_Witness ==
    /\ status = "playing"
    /\ out # <<>>
    /\ LastOut.msg = "tossup-turn-start"
    /\ LastOut.player = Cur
    /\ \E i \in 1..Len(out) : out[i].msg = "tossup-tie-tiebreaker"
    /\ total_score[Cur] >= target_score
    /\ turn_points[Cur] = 0
    /\ dice_count[Cur] = StartingDice
    /\ last_roll[Cur] = <<>>

\* The turn state of q: turn points, dice and last roll.
TurnState(q) == <<turn_points[q], dice_count[q], last_roll[q]>>
\* The step was q's own accepted roll or bank, q being current, or began
\* q's turn.
OwnStep(q) ==
    \/ status = "playing" /\ Cur = q /\ (AcceptedRoll(q) \/ AcceptedBank(q))
    \/ TurnStarted(q)
\* C27 as stated: a player's turn state is changed only by that player's
\* own turn start, roll and bank.
C27_OwnStepsOnly ==
    [][\A q \in Players : TurnState(q)' # TurnState(q) => OwnStep(q)]_vars
\* C27: once the game has started, a player's turn state is changed only
\* by that player's own turn start, roll and bank: no roll, bank, bust or
\* turn start of another player, no round end and no tie-break marking
\* alters it. The start of the game resets the turn state of every player.
C27_OwnStepsAfterStart ==
    [][/\ status # "waiting"
          => \A q \in Players : TurnState(q)' # TurnState(q) => OwnStep(q)
       /\ (status = "waiting" /\ status' = "playing")
          => \A q \in Players :
                ~is_spectator[q] => TurnState(q)' = <<0, StartingDice, <<>>>>]_vars
\* A tie-break round has started with a player who is not current holding
\* the last roll and the dice of their turn in the round before.
C27_Witness ==
    /\ status = "playing"
    /\ out # <<>>
    /\ \E i \in 1..Len(out) : out[i].msg = "tossup-tie-tiebreaker"
    /\ \E q \in Players : /\ q # Cur
                          /\ last_roll[q] # <<>>
                          /\ dice_count[q] < StartingDice

\* The step was p's accepted Standard roll of yellow faces only.
AllYellowRoll(p) ==
    /\ rules_variant = "Standard"
    /\ AcceptedRoll(p)
    /\ out'[1].x = 0
    /\ out'[1].z = 0
C29_DiceInRange ==
    status # "waiting" =>
        \A p \in Players :
            /\ dice_count[p] \in 0..StartingDice
            /\ IsRollEnabled(Game, p) = "" => (p = Cur /\ dice_count[p] >= 1)
\* After a roll the current player holds fewer dice than the starting dice
\* and may roll again, and a player who has not had a turn holds them all.
C29_Witness ==
    /\ status = "playing"
    /\ Cur # None
    /\ IsRollEnabled(Game, Cur) = ""
    /\ last_roll[Cur] # <<>>
    /\ dice_count[Cur] \in 1..(StartingDice - 1)
    /\ \E q \in Players : q # Cur /\ dice_count[q] = StartingDice

\* C30: the game finishes only at a round boundary. A bank that lifts a
\* player to the target score before the last turn of the round neither
\* ends the game nor names a winner or a tie: the next player of the order
\* takes their turn in the same round; and a winner or a tie is broadcast,
\* and the game finished, only by the step that ends the round's last turn.
C30_FinishAtRoundEnd ==
    [][status = "playing" =>
          /\ \A p \in Players :
                (TurnEnded(p) /\ AcceptedBank(p)
                   /\ total_score'[p] >= target_score
                   /\ turn_index < Len(turn_player_ids) - 1)
                => /\ status' = "playing"
                   /\ game_active'
                   /\ round' = round
                   /\ TurnStarted(turn_player_ids[turn_index + 2])
                   /\ Said("tossup-winner") = 0
                   /\ Said("tossup-tie-tiebreaker") = 0
          /\ (status' = "finished" \/ Said("tossup-winner") > 0
                \/ Said("tossup-tie-tiebreaker") > 0)
                => \E p \in Players : RoundEnded(p)]_vars
\* The first player of round 1 stands at the target score and a later
\* player of the same round is taking their turn.
C30_Witness ==
    /\ status = "playing"
    /\ round = 1
    /\ turn_index >= 1
    /\ total_score[turn_player_ids[1]] >= target_score
    /\ Cur = turn_player_ids[turn_index + 1]
    /\ last_roll[Cur] # <<>>

\* C31: in a finished game the result built from the state has at its top
\* a player whose total reaches the target score and is strictly above the
\* total of every other player, spectators of earlier tie-breaks included;
\* and the winner the round end announced is that player, with that total.
C31_WinnerOnTop ==
    status = "finished" =>
        LET result == BuildGameResult(Game)
            w == result.winner_name
        IN /\ w \in Players
           /\ result.winner_score = total_score[w]
           /\ result.final_scores[1] = <<w, total_score[w]>>
           /\ total_score[w] >= target_score
           /\ \A q \in Players \ {w} : total_score[q] < total_score[w]
           /\ \A i \in 1..Len(out) :
                 out[i].msg = "tossup-winner"
                 => (out[i].player = w /\ out[i].x = total_score[w])
\* A tie-break round has just ended with a winner: a player turned spectator
\* by the tie looks on, and the winner is not the first player.
C31_Witness ==
    /\ status = "finished"
    /\ out # <<>>
    /\ LastOut.msg = "tossup-winner"
    /\ LastOut.player # 1
    /\ \E q \in Players : is_spectator[q]
    /\ BuildGameResult(Game).winner_name = LastOut.player

\* C32: the turn points of the current player are the greens of the rolls
\* of the turn so far. A turn starts at 0; each accepted roll that does not
\* bust adds its greens, whether or not it brings fresh dice; a bust roll
\* has no green; no other step changes the turn points of the player whose
\* turn goes on; and a bank commits exactly the turn points held, adding
\* them to the banker's total.
C32_PointsAreGreens ==
    [][\A p \in Players :
          /\ TurnStarted(p) => turn_points'[p] = 0
          /\ status = "playing" =>
                /\ NonBustRoll(p) => /\ Cur = p /\ Cur' = p
                                     /\ ~TurnStarted(p)
                                     /\ last_roll'[p].green = out'[1].x
                                     /\ turn_points'[p] = turn_points[p] + out'[1].x
                /\ BustRoll(p) => (Cur = p /\ out'[1].x = 0)
                /\ AcceptedBank(p) => /\ Cur = p
                                      /\ out'[1].x = turn_points[p]
                                      /\ total_score'[p] = total_score[p] + turn_points[p]
                /\ (p = Cur /\ ~AcceptedRoll(p) /\ ~AcceptedBank(p))
                      => turn_points'[p] = turn_points[p]]_vars
\* Two points were banked, the second from a roll of the one die left, which
\* brought fresh dice.
C32_Witness ==
    /\ out # <<>>
    /\ out[1].msg = "tossup-player-banks"
    /\ out[1].x = 2
    /\ last_roll[out[1].player] = [green |-> 1, yellow |-> 0, red |-> 0]
    /\ total_score[out[1].player] >= 2

\* The choice bot_think makes for the current bot is refused whatever it draws.
BotStuck ==
    /\ status = "playing"
    /\ game_active
    /\ Cur # None
    /\ is_bot[Cur]
    /\ \A lazy_base \in LazyDraws(Game) : \A u \in Hundredths :
          LET g1 == IF bot_target[Cur] = NoTarget
                    THEN SetupBotTarget(Game, Cur, lazy_base) ELSE Game
          IN IF BotThink(g1, Cur, u) = "bank"
             THEN IsBankEnabled(g1, Cur) # ""
             ELSE IsRollEnabled(g1, Cur) # ""
\* C10: no state of a game being played has the current bot unable to make
\* progress, so ticking a game of bots goes on to its end.
C10_NoStall == ~BotStuck
====
